---- MODULE Spec2Model ----
(***************************************************************************)
(* A model of mpirion (src/src/lib.rs): the four macros mpirion_main!,     *)
(* mpirion_group!, mpirion_kernel! and mpirion_bench!, as the processes    *)
(* they generate.  One root process runs main(); when it takes the         *)
(* benchmark path it is the coordinator, and every measurement spawns      *)
(* worker processes that run main() again with "--child <kernel>".         *)
(*                                                                         *)
(* Integers are scaled: u64 has U64Bits bits, an f64 has F64Mantissa       *)
(* significant bits (64 and 53 in the build).                              *)
(***************************************************************************)
EXTENDS Integers, Sequences, FiniteSets, TLC

----------------------------------------------------------------------------
(* Bounds of the model *)

\* the largest iteration count criterion hands to the closure
MaxIterations == 2
\* the largest world_size a mpirion_bench! call asks for
MaxWorkers == 2
\* width of u64, scaled (64 in the build)
U64Bits == 4
\* significant bits of an f64, scaled (53 in the build)
F64Mantissa == 3

----------------------------------------------------------------------------
(* Integer and floating-point conversions *)

U64Modulus == 2 ^ U64Bits
U64Max == U64Modulus - 1

\* `x as u64` of a u128: keeps the low 64 bits
AsU64(x) == x % U64Modulus

\* u64 addition as MPI's sum operation performs it (C unsigned: wraps)
U64Add(a, b) == (a + b) % U64Modulus

\* round-half-to-even of the rational n / d, n >= 0, d > 0
RoundHalfEven(n, d) ==
    LET q == n \div d
        r == n % d
    IN  IF 2 * r > d \/ (2 * r = d /\ q % 2 = 1) THEN q + 1 ELSE q

\* the binary exponent e with 2^(F64Mantissa-1) <= (n/d) / 2^e < 2^F64Mantissa
FloatExp(n, d) ==
    CHOOSE e \in (0 - (2 * U64Bits + F64Mantissa)) .. (2 * U64Bits) :
        IF e >= 0
        THEN /\ (2 ^ (F64Mantissa - 1)) * d * (2 ^ e) <= n
             /\ n < (2 ^ F64Mantissa) * d * (2 ^ e)
        ELSE /\ (2 ^ (F64Mantissa - 1)) * d <= n * (2 ^ (0 - e))
             /\ n * (2 ^ (0 - e)) < (2 ^ F64Mantissa) * d

\* the f64 nearest to n / d, as mant * 2^exp
FloatRound(n, d) ==
    IF n = 0 THEN [mant |-> 0, exp |-> 0]
    ELSE LET e == FloatExp(n, d)
         IN  [mant |-> IF e >= 0 THEN RoundHalfEven(n, d * (2 ^ e))
                                 ELSE RoundHalfEven(n * (2 ^ (0 - e)), d),
              exp  |-> e]

\* `f as u64`: truncates toward zero and saturates at u64::MAX
FloatAsU64(f) ==
    LET t == IF f.exp >= 0 THEN f.mant * (2 ^ f.exp)
                           ELSE f.mant \div (2 ^ (0 - f.exp))
    IN  IF t > U64Max THEN U64Max ELSE t

\* `n as f64` of an integer, as the integer it rounds to
IntAsF64(n) ==
    LET f == FloatRound(n, 1)
    IN  IF f.exp >= 0 THEN f.mant * (2 ^ f.exp) ELSE f.mant \div (2 ^ (0 - f.exp))

\* (total_nanos as f64 / child_world_size as f64) as u64, for every u64 total and
\* every size a spawned world can have
F64Mean ==
    [total \in 0 .. U64Max, count \in 1 .. MaxWorkers |->
        FloatAsU64(FloatRound(IntAsF64(total), IntAsF64(count)))]
MeanNanos(total, count) == F64Mean[total, count]

----------------------------------------------------------------------------
(* The executable: what the macros were invoked with *)

\* Option values: <<>> is None, <<v>> is Some(v)
None == <<>>
Some(v) == <<v>>

\* mpirion_main!(benches, first_kernel, collective_comm_kernel): one group
NumGroups == 1
Kernels == <<"first_kernel", "collective_comm_kernel">>

\* mpirion_kernel!(first_kernel, setup);
\* mpirion_kernel!(collective_comm_kernel, setup_sized, u32);
KernelDef(name) ==
    IF name = "collective_comm_kernel"
    THEN [target |-> "collective_comm_kernel", setup |-> "setup_sized", typed |-> TRUE]
    ELSE [target |-> "first_kernel", setup |-> "setup", typed |-> FALSE]

\* the kernels the benchmark targets name in mpirion_bench!; the last one is
\* not in the kernels list of mpirion_main!
BenchKernels == {"first_kernel", "collective_comm_kernel", "unlisted_kernel"}

\* argument values a benchmark target passes (bit patterns of the argument type)
ArgValues == {1, 2}

\* durations one kernel call can take (short, or half the range of u64), and one
\* setup call or barrier wait (a tick of the clock, so that timing either of them
\* shows in total_duration)
KernelDurations == {1, 2 ^ (U64Bits - 1)}
OtherDurations == {1}

\* command lines the root process can be started with (args[0] is the program)
RootArgv ==
    { <<"bench">>,
      <<"bench", "--bench">>,
      <<"bench", "first_kernel">>,
      <<"bench", "--bench", "--child">>,
      <<"bench", "--child">>,
      <<"bench", "--child", "first_kernel">>,
      <<"bench", "--child", "no_such_kernel">> }

\* (rank, size) of the root process in its own world
RootWorlds == { <<0, 1>>, <<0, 2>>, <<1, 2>> }

----------------------------------------------------------------------------
(* mpirion_main!: the role of a process, from its command line *)

\* Iterator::nth(n) on the remaining arguments: the item and what is left
IterNth(it, n) ==
    IF Len(it) > n
    THEN [item |-> Some(it[n + 1]), rest |-> SubSeq(it, n + 2, Len(it))]
    ELSE [item |-> None, rest |-> <<>>]

\* Iterator::next()
IterNext(it) == IterNth(it, 0)

\* the match on the kernel argument: the first arm whose stringify!(kernel) equals it
DispatchFirstArm(kernel_arg) ==
    [path |-> "kernel", boot |-> Kernels[1]]
DispatchLastArm(kernel_arg) ==
    IF \E j \in 1 .. Len(Kernels) : Kernels[j] = kernel_arg
    THEN [path |-> "kernel", boot |-> Kernels[Len(Kernels)]]
    ELSE [path |-> "panic_unknown_kernel", boot |-> "none"]
Dispatch(kernel_arg) ==
    IF \E j \in 1 .. Len(Kernels) : Kernels[j] = kernel_arg
    THEN [path |-> "kernel",
          boot |-> Kernels[CHOOSE j \in 1 .. Len(Kernels) :
                              /\ Kernels[j] = kernel_arg
                              /\ \A h \in 1 .. (j - 1) : Kernels[h] # kernel_arg]]
    ELSE [path |-> "panic_unknown_kernel", boot |-> "none"]

\* the body of main() up to the branch it takes
MainRouteNth0(args) ==
    LET p == IterNth(args, 0)
    IN  IF p.item # None
        THEN IF p.item[1] = "--child"
             THEN LET kernel_arg == IterNext(p.rest)
                  IN  IF kernel_arg.item # None
                      THEN Dispatch(kernel_arg.item[1])
                      ELSE [path |-> "panic_no_kernel", boot |-> "none"]
             ELSE [path |-> "coordinator", boot |-> "none"]
        ELSE [path |-> "panic_no_args", boot |-> "none"]
MainRoute(args) ==
    LET p == IterNth(args, 1)
    IN  IF p.item # None
        THEN IF p.item[1] = "--child"
             THEN LET kernel_arg == IterNext(p.rest)
                  IN  IF kernel_arg.item # None
                      THEN Dispatch(kernel_arg.item[1])
                      ELSE [path |-> "panic_no_kernel", boot |-> "none"]
             ELSE [path |-> "coordinator", boot |-> "none"]
        ELSE [path |-> "panic_no_args", boot |-> "none"]

----------------------------------------------------------------------------
(* State *)

VARIABLES
    root,       \* the root process: its command line, its world, where it is in main()
    bench,      \* the locals of the running mpirion_bench! closure call
    bcasts,     \* what rank 0 has broadcast on the merged group of this sample
    sample,     \* the Duration the last closure call returned to criterion
    workers,    \* the processes spawned for this sample, by rank in their world + 1
    lingering   \* whether a worker of an earlier sample has reduced and not yet exited

vars == <<root, bench, bcasts, sample, workers, lingering>>

Ranks == 1 .. MaxWorkers

NoWorker ==
    [pc |-> "none", args |-> <<>>, boot |-> "none", iterations |-> 0, input |-> 0,
     recvd |-> 0, i |-> 0, now |-> 0, start |-> 0, total_duration |-> 0,
     kernel_time |-> 0, calls |-> <<>>, nanos |-> 0,
     collectives |-> <<>>, merged_rank |-> None]

NoBench ==
    [kernel |-> "none", world_size |-> 0, argument |-> None, iterations |-> 0,
     launched |-> 0, child_world_size |-> None, total_nanos |-> 0, calls |-> <<>>,
     merged_rank |-> None]

Init ==
    /\ \E a \in RootArgv, w \in RootWorlds :
          root = [args |-> a, rank |-> w[1], size |-> w[2], pc |-> "main",
                  mpi |-> FALSE, boot |-> "none", group |-> 0, target_runs |-> 0]
    /\ bench = NoBench
    /\ bcasts = <<>>
    /\ sample = None
    /\ workers = [w \in Ranks |-> NoWorker]
    /\ lingering = FALSE

----------------------------------------------------------------------------
(* The root process: mpirion_main! and mpirion_group! *)

\* main(): the branch on the command line; the benchmark path initializes MPI
Main ==
    /\ root.pc = "main"
    /\ LET route == MainRoute(root.args)
       IN  root' = IF route.path = "coordinator"
                   THEN [root EXCEPT !.pc = "group", !.mpi = TRUE, !.group = 1]
                   ELSE IF route.path = "kernel"
                   THEN [root EXCEPT !.pc = "execute_kernel", !.boot = route.boot]
                   ELSE [root EXCEPT !.pc = "panicked"]
    /\ UNCHANGED <<bench, bcasts, sample, workers, lingering>>

\* execute_kernel_<kernel>() in a process nobody spawned: world.parent() is None
RootExecuteKernel ==
    /\ root.pc = "execute_kernel"
    /\ root' = [root EXCEPT !.pc = "panicked", !.mpi = TRUE]
    /\ UNCHANGED <<bench, bcasts, sample, workers, lingering>>

\* the rank check of a group function: whether the target is run
GroupRunsTarget(rank, world_size) == ~(rank # 0)

\* a group function: the checks, then the call of the target
Group ==
    /\ root.pc = "group"
    /\ root' = IF GroupRunsTarget(root.rank, root.size)
               THEN [root EXCEPT !.pc = "idle", !.target_runs = @ + 1]
               ELSE [root EXCEPT !.pc = "panicked"]
    /\ UNCHANGED <<bench, bcasts, sample, workers, lingering>>

\* the target returns: the next group, or the final summary
FinishTarget ==
    /\ root.pc = "idle"
    /\ root' = IF root.group < NumGroups
               THEN [root EXCEPT !.pc = "group", !.group = @ + 1]
               ELSE [root EXCEPT !.pc = "done"]
    /\ UNCHANGED <<bench, bcasts, sample, workers, lingering>>

----------------------------------------------------------------------------
(* The coordinator: one call of the mpirion_bench! closure *)

\* child_exe: the current executable, "--child", stringify!(kernel)
ChildArgs(exe, kernel) == <<exe, "--child", kernel>>

\* assert_eq!(child_world_size, world_size)
SizeCheckSkipped(child_world_size, world_size) == TRUE
SizeCheckAtMost(child_world_size, world_size) == child_world_size <= world_size
SizeCheck(child_world_size, world_size) == child_world_size = world_size

\* MergeOrder of the two merge calls, and the rank the spawner gets in the merged
\* group: the side that passes Low is ordered first
CoordinatorMergeOrderHigh == "High"
CoordinatorMergeOrder == "Low"
WorkerMergeOrder == "High"
CoordinatorMergedRank(remote_size) ==
    IF CoordinatorMergeOrder = "Low" /\ WorkerMergeOrder = "High" THEN 0 ELSE remote_size

\* the rank worker w (rank w - 1 of the spawned world) gets in the merged group,
\* next to a spawner group of local_size processes
WorkerMergedRank(w, local_size) ==
    IF CoordinatorMergeOrder = "Low" /\ WorkerMergeOrder = "High"
    THEN local_size + (w - 1)
    ELSE w - 1

\* merged_comm.process_at_rank(0): the root of the workers' broadcasts and reduction
WorkerRootRank == 0

\* the workers of this sample that have reached (or passed) their merge call
InMerge(w) == workers[w].pc \notin {"none", "main", "init", "panicked"}
\* ... and their reduction
ContributedOrInLoop(w) == InMerge(w)
ContributedOrStopped(w) ==
    workers[w].pc \in {"finalize", "exited", "stopped_setup", "stopped_kernel"}
Contributed(w) == workers[w].pc \in {"finalize", "exited"}

\* criterion calls the closure: the child command line is built and the spawn is
\* requested; the runtime starts n of the world_size processes asked for
Spawn ==
    /\ root.pc = "idle"
    /\ \E iterations \in 0 .. MaxIterations, kernel \in BenchKernels,
          world_size \in 1 .. MaxWorkers,
          argument \in {None} \cup {Some(v) : v \in ArgValues} :
          \E n \in 0 .. world_size :
             /\ bench' = [kernel |-> kernel, world_size |-> world_size,
                          argument |-> argument, iterations |-> iterations,
                          launched |-> n, child_world_size |-> None,
                          total_nanos |-> 0, calls |-> <<"spawn">>,
                          merged_rank |-> None]
             /\ workers' = [w \in Ranks |->
                               IF w <= n
                               THEN [NoWorker EXCEPT
                                       !.pc = "main",
                                       !.args = ChildArgs(root.args[1], kernel)]
                               ELSE NoWorker]
    /\ root' = [root EXCEPT !.pc = "spawning"]
    /\ sample' = None
    /\ UNCHANGED <<bcasts, lingering>>

\* the spawn returns once every child has initialized MPI; the remote size is
\* compared with the size asked for
SpawnReturn ==
    /\ root.pc = "spawning"
    /\ root.size = 1
    /\ bench.launched >= 1
    /\ \A w \in 1 .. bench.launched : InMerge(w)
    /\ bench' = [bench EXCEPT !.child_world_size = Some(bench.launched)]
    /\ root' = IF SizeCheck(bench.launched, bench.world_size)
               THEN [root EXCEPT !.pc = "merge"]
               ELSE [root EXCEPT !.pc = "panicked"]
    /\ UNCHANGED <<bcasts, sample, workers, lingering>>

\* the spawn reports an error: expect("failed to spawn child processes")
SpawnFail ==
    /\ root.pc = "spawning"
    /\ root.size = 1
    /\ \/ bench.launched = 0
       \/ \E w \in 1 .. bench.launched : workers[w].pc = "panicked"
    /\ root' = [root EXCEPT !.pc = "panicked"]
    /\ UNCHANGED <<bench, bcasts, sample, workers, lingering>>

\* child_inter_comm.merge(MergeOrder::Low): collective with the workers' merge
CoordinatorMerge ==
    /\ root.pc = "merge"
    /\ \A w \in 1 .. bench.child_world_size[1] : InMerge(w)
    /\ root' = [root EXCEPT !.pc = "bcast_iterations"]
    /\ bench' = [bench EXCEPT !.calls = Append(@, "merge"),
                              !.merged_rank =
                                  Some(CoordinatorMergedRank(bench.child_world_size[1]))]
    /\ UNCHANGED <<bcasts, sample, workers, lingering>>

\* what follows the broadcast of the iteration count: the $( ... )? block of the
\* input is there only when the call has an argument
AfterBcastIterationsNoReduce(argument) ==
    IF argument # None THEN "bcast_input" ELSE "sample_ready"
AfterBcastIterations(argument) ==
    IF argument # None THEN "bcast_input" ELSE "reduce"

\* broadcast_into(this_process, &mut iterations)
CoordinatorBcastIterations ==
    /\ root.pc = "bcast_iterations"
    /\ bcasts' = Append(bcasts, bench.iterations)
    /\ root' = [root EXCEPT !.pc = AfterBcastIterations(bench.argument)]
    /\ bench' = [bench EXCEPT !.calls = Append(@, "broadcast")]
    /\ UNCHANGED <<sample, workers, lingering>>

\* let mut input = argument.clone(); broadcast_into(this_process, &mut input)
CoordinatorBcastInput ==
    /\ root.pc = "bcast_input"
    /\ bcasts' = Append(bcasts, bench.argument[1])
    /\ root' = [root EXCEPT !.pc = "reduce"]
    /\ bench' = [bench EXCEPT !.calls = Append(@, "broadcast")]
    /\ UNCHANGED <<sample, workers, lingering>>

\* the sum over the merged group: the coordinator's [0u64] and each worker's nanos
RECURSIVE ReduceSum(_)
ReduceSum(n) ==
    IF n = 0 THEN 0 ELSE U64Add(ReduceSum(n - 1), workers[n].nanos)

\* reduce_into_root, the division by child_world_size, Duration::from_nanos
CoordinatorReduce ==
    /\ root.pc = "reduce"
    /\ \A w \in 1 .. bench.child_world_size[1] : Contributed(w)
    /\ LET total_nanos == ReduceSum(bench.child_world_size[1])
       IN  /\ bench' = [bench EXCEPT !.total_nanos = total_nanos,
                                     !.calls = Append(@, "reduce")]
           /\ sample' = Some(MeanNanos(total_nanos, bench.child_world_size[1]))
    /\ root' = [root EXCEPT !.pc = "sample_ready"]
    /\ UNCHANGED <<bcasts, workers, lingering>>

\* the closure returns the Duration to criterion: its locals are dropped, and the
\* workers it spawned, which run on by themselves, are from now on workers of an
\* earlier sample
CoordinatorReturn ==
    /\ root.pc = "sample_ready"
    /\ root' = [root EXCEPT !.pc = "idle"]
    /\ bench' = NoBench
    /\ bcasts' = <<>>
    /\ workers' = [w \in Ranks |-> NoWorker]
    /\ lingering' = (lingering \/ \E w \in Ranks : workers[w].pc = "finalize")
    /\ UNCHANGED sample

----------------------------------------------------------------------------
(* A worker: main() with "--child <kernel>", then execute_kernel_<kernel>() *)

\* main() of a spawned process
WorkerMain(w) ==
    /\ workers[w].pc = "main"
    /\ LET route == MainRoute(workers[w].args)
       IN  workers' = [workers EXCEPT ![w] =
                IF route.path = "kernel"
                THEN [@ EXCEPT !.pc = "init", !.boot = route.boot]
                ELSE IF route.path = "coordinator"
                THEN [@ EXCEPT !.pc = "coordinator"]
                ELSE [@ EXCEPT !.pc = "panicked"]]
    /\ UNCHANGED <<root, bench, bcasts, sample, lingering>>

\* mpi::initialize(), world.parent() and the call of inter_comm.merge(High)
WorkerInit(w) ==
    /\ workers[w].pc = "init"
    /\ workers' = [workers EXCEPT ![w].pc = "merge"]
    /\ UNCHANGED <<root, bench, bcasts, sample, lingering>>

\* the pc of a worker that is at the head of its loop with i iterations done
LoopPcOffByOne(i, iterations) == IF i <= iterations THEN "setup" ELSE "reduce"
LoopPc(i, iterations) == IF i < iterations THEN "setup" ELSE "reduce"

\* the merge returns: every member of both groups has called it
WorkerMerge(w) ==
    /\ workers[w].pc = "merge"
    /\ root.pc \in {"merge", "bcast_iterations", "bcast_input", "reduce", "sample_ready"}
    /\ \A v \in 1 .. bench.launched : InMerge(v)
    /\ workers' = [workers EXCEPT ![w] =
              [@ EXCEPT !.collectives = Append(@, "merge"),
                        !.merged_rank = Some(WorkerMergedRank(w, root.size)),
                        !.pc = "bcast_iterations"]]
    /\ UNCHANGED <<root, bench, bcasts, sample, lingering>>

\* whether the j-th broadcast from rank 0 of the merged group has a value for a
\* worker, and the value: rank 0 is the coordinator when it merged Low
BcastReadyLate(j) == Len(bcasts) > j
BcastReady(j) ==
    CoordinatorMergedRank(bench.launched) # WorkerRootRank \/ Len(bcasts) >= j
BcastStale(j, own) == own
BcastValue(j, own) ==
    IF CoordinatorMergedRank(bench.launched) = WorkerRootRank THEN bcasts[j] ELSE own

\* let mut iterations = 0u64; broadcast_into(process_at_rank(0), &mut iterations)
WorkerBcastIterations(w) ==
    /\ workers[w].pc = "bcast_iterations"
    /\ BcastReady(1)
    /\ workers' = [workers EXCEPT ![w] =
          LET iterations == BcastValue(1, 0)
          IN  [@ EXCEPT !.iterations = iterations,
                        !.recvd = 1,
                        !.collectives = Append(@, "broadcast"),
                        !.pc = IF KernelDef(workers[w].boot).typed
                               THEN "bcast_input"
                               ELSE LoopPc(0, iterations)]]
    /\ UNCHANGED <<root, bench, bcasts, sample, lingering>>

\* input = zeroed(); broadcast_into(process_at_rank(0), &mut input)
WorkerBcastInput(w) ==
    /\ workers[w].pc = "bcast_input"
    /\ BcastReady(2)
    /\ workers' = [workers EXCEPT ![w] =
              [@ EXCEPT !.input = BcastValue(2, 0),
                        !.recvd = 2,
                        !.collectives = Append(@, "broadcast"),
                        !.pc = LoopPc(0, workers[w].iterations)]]
    /\ UNCHANGED <<root, bench, bcasts, sample, lingering>>

\* an entry of a worker's call log
Call(op, fn, arg) == [op |-> op, fn |-> fn, arg |-> arg]

\* let mut data = setup(&world, input as t)
WorkerSetup(w) ==
    /\ workers[w].pc = "setup"
    /\ \E dt \in OtherDurations :
          workers' = [workers EXCEPT ![w] =
              LET def == KernelDef(workers[w].boot)
              IN  [@ EXCEPT !.calls = Append(@, Call("setup", def.setup,
                                IF def.typed THEN Some(workers[w].input) ELSE None)),
                            !.now = @ + dt,
                            !.pc = "barrier"]]
    /\ UNCHANGED <<root, bench, bcasts, sample, lingering>>

\* a worker that has entered the barrier of iteration i of the workers' world
AtBarrierAlone(v, i) == TRUE
AtBarrier(v, i) ==
    \/ workers[v].i > i
    \/ workers[v].i = i /\ workers[v].pc \in {"barrier", "kernel", "stopped_kernel"}

\* let start = Instant::now(), read after the barrier
TimerStartEarly(before, after) == before
TimerStart(before, after) == after

\* barrier(&world) returns, and the timer is started
WorkerBarrier(w) ==
    /\ workers[w].pc = "barrier"
    /\ \A v \in 1 .. bench.launched : AtBarrier(v, workers[w].i)
    /\ \E dt \in OtherDurations :
          workers' = [workers EXCEPT ![w] =
              [@ EXCEPT !.calls = Append(@, Call("barrier", "world", None)),
                        !.start = TimerStart(workers[w].now, workers[w].now + dt),
                        !.now = @ + dt,
                        !.pc = "kernel"]]
    /\ UNCHANGED <<root, bench, bcasts, sample, lingering>>

\* start.elapsed()
Elapsed(start, now) == now - start

\* target(&world, &mut data); total_duration += start.elapsed().  The clock is
\* read relative to the start of the loop iteration: start is a local of the
\* iteration and an Instant is only ever used in a difference, so both are
\* back at the origin when the next iteration begins
WorkerKernel(w) ==
    /\ workers[w].pc = "kernel"
    /\ \E dt \in KernelDurations :
          workers' = [workers EXCEPT ![w] =
              LET def == KernelDef(workers[w].boot)
                  now == workers[w].now + dt
              IN  [@ EXCEPT !.calls = Append(@, Call("kernel", def.target, None)),
                            !.now = 0,
                            !.start = 0,
                            !.kernel_time = @ + dt,
                            !.total_duration = @ + Elapsed(workers[w].start, now),
                            !.i = @ + 1,
                            !.pc = LoopPc(workers[w].i + 1, workers[w].iterations)]]
    /\ UNCHANGED <<root, bench, bcasts, sample, lingering>>

\* the setup function or the kernel function does not return: it hangs, or it
\* panics and the process dies
WorkerStop(w) ==
    /\ workers[w].pc \in {"setup", "kernel"}
    /\ workers' = [workers EXCEPT ![w].pc =
                      IF workers[w].pc = "setup" THEN "stopped_setup" ELSE "stopped_kernel"]
    /\ UNCHANGED <<root, bench, bcasts, sample, lingering>>

\* let nanos = total_duration.as_nanos() as u64; reduce_into(process_at_rank(0), &nanos, sum)
WorkerReduce(w) ==
    /\ workers[w].pc = "reduce"
    /\ workers' = [workers EXCEPT ![w] =
              [@ EXCEPT !.nanos = AsU64(workers[w].total_duration),
                        !.collectives = Append(@, "reduce"),
                        !.pc = "finalize"]]
    /\ UNCHANGED <<root, bench, bcasts, sample, lingering>>

\* execute_kernel_<kernel>() and main() return: the process exits
WorkerExit(w) ==
    /\ workers[w].pc = "finalize"
    /\ workers' = [workers EXCEPT ![w].pc = "exited"]
    /\ UNCHANGED <<root, bench, bcasts, sample, lingering>>

\* the last worker of the earlier samples exits
LingeringExit ==
    /\ lingering
    /\ lingering' = FALSE
    /\ UNCHANGED <<root, bench, bcasts, sample, workers>>

----------------------------------------------------------------------------
(* The specification *)

Next ==
    \/ Main
    \/ RootExecuteKernel
    \/ Group
    \/ FinishTarget
    \/ Spawn
    \/ SpawnReturn
    \/ SpawnFail
    \/ CoordinatorMerge
    \/ CoordinatorBcastIterations
    \/ CoordinatorBcastInput
    \/ CoordinatorReduce
    \/ CoordinatorReturn
    \/ \E w \in Ranks :
          \/ WorkerMain(w)
          \/ WorkerInit(w)
          \/ WorkerMerge(w)
          \/ WorkerBcastIterations(w)
          \/ WorkerBcastInput(w)
          \/ WorkerSetup(w)
          \/ WorkerBarrier(w)
          \/ WorkerKernel(w)
          \/ WorkerStop(w)
          \/ WorkerReduce(w)
          \/ WorkerExit(w)
    \/ LingeringExit

Spec == Init /\ [][Next]_vars

\* the steps a running process takes by itself.  Not among them: criterion
\* calling the closure again or ending the target (Spawn, FinishTarget), and a
\* setup or kernel call that does not return (WorkerStop)
RootStep ==
    \/ Main
    \/ RootExecuteKernel
    \/ Group
    \/ SpawnReturn
    \/ SpawnFail
    \/ CoordinatorMerge
    \/ CoordinatorBcastIterations
    \/ CoordinatorBcastInput
    \/ CoordinatorReduce
    \/ CoordinatorReturn

WorkerStep(w) ==
    \/ WorkerMain(w)
    \/ WorkerInit(w)
    \/ WorkerMerge(w)
    \/ WorkerBcastIterations(w)
    \/ WorkerBcastInput(w)
    \/ WorkerSetup(w)
    \/ WorkerBarrier(w)
    \/ WorkerKernel(w)
    \/ WorkerReduce(w)
    \/ WorkerExit(w)

\* every process is an operating-system process of its own and keeps running
FairSpec ==
    /\ Spec
    /\ WF_vars(RootStep)
    /\ \A w \in Ranks : WF_vars(WorkerStep(w))
    /\ WF_vars(LingeringExit)

----------------------------------------------------------------------------
(* Helpers of the properties *)

Spawned == {w \in Ranks : workers[w].pc # "none"}

\* the pcs of a worker that has entered its measurement loop (or is past it)
LoopPcs == {"setup", "barrier", "kernel", "stopped_setup", "stopped_kernel",
            "reduce", "finalize", "exited"}
PastLoopPcs == {"reduce", "finalize", "exited"}

\* the kernels of the kernels list of mpirion_main!
Registered == {Kernels[j] : j \in 1 .. Len(Kernels)}

\* the exact sum of the accumulated durations of workers 1..n, in nanoseconds
RECURSIVE ExactSum(_)
ExactSum(n) == IF n = 0 THEN 0 ELSE ExactSum(n - 1) + workers[n].total_duration

MinDuration(n) ==
    CHOOSE d \in {workers[w].total_duration : w \in 1 .. n} :
        \A w \in 1 .. n : d <= workers[w].total_duration
MaxDuration(n) ==
    CHOOSE d \in {workers[w].total_duration : w \in 1 .. n} :
        \A w \in 1 .. n : d >= workers[w].total_duration

\* the order of calls one loop iteration makes
LoopOrder == <<"setup", "barrier", "kernel">>

CountCalls(calls, op) == Cardinality({j \in 1 .. Len(calls) : calls[j].op = op})

----------------------------------------------------------------------------
(* Properties *)

\* C1: the Duration one measurement returns is the reduced total divided by the
\* worker count, truncated to whole nanoseconds, and lies between the smallest
\* and the largest worker duration; equal durations d give the sample d.
C1_SampleIsMean ==
    root.pc = "sample_ready" =>
        LET n == bench.child_world_size[1]
        IN  /\ sample = Some(bench.total_nanos \div n)
            /\ MinDuration(n) <= sample[1]
            /\ sample[1] <= MaxDuration(n)
            /\ MinDuration(n) = MaxDuration(n) => sample[1] = MinDuration(n)

\* C1, within the range where the arithmetic is exact: when no worker's
\* nanoseconds are cut by the cast, the sum does not wrap and the total has
\* at most F64Mantissa significant bits, the sample is the truncated mean.
C1_SampleIsMeanInRange ==
    (/\ root.pc = "sample_ready"
     /\ ExactSum(bench.child_world_size[1]) < 2 ^ F64Mantissa) =>
        LET n == bench.child_world_size[1]
        IN  /\ sample = Some(ExactSum(n) \div n)
            /\ MinDuration(n) <= sample[1]
            /\ sample[1] <= MaxDuration(n)

\* C2: the coordinator contributes 0 and each worker its own accumulated kernel
\* nanoseconds, so the total the coordinator receives is the exact sum of the
\* workers' accumulated durations.
C2_TotalIsExactSum ==
    root.pc = "sample_ready" =>
        /\ \A w \in 1 .. bench.child_world_size[1] :
              workers[w].nanos = workers[w].total_duration
        /\ bench.total_nanos = ExactSum(bench.child_world_size[1])

\* C2, within the range of u64: when the exact sum is below 2^U64Bits the
\* total received is that sum.
C2_TotalIsExactSumInRange ==
    (/\ root.pc = "sample_ready"
     /\ ExactSum(bench.child_world_size[1]) < U64Modulus) =>
        bench.total_nanos = ExactSum(bench.child_world_size[1])

\* C3: a worker that received the iteration count n calls setup n times and the
\* kernel n times, in the order setup, barrier, kernel; with n = 0 it calls
\* neither and still reduces, contributing 0.
C3_LoopCalls ==
    \A w \in Ranks :
        LET r == workers[w]
        IN  /\ \A j \in 1 .. Len(r.calls) : r.calls[j].op = LoopOrder[((j - 1) % 3) + 1]
            /\ r.pc \in LoopPcs => Len(r.calls) <= 3 * r.iterations
            /\ r.pc \in PastLoopPcs =>
                  /\ CountCalls(r.calls, "setup") = r.iterations
                  /\ CountCalls(r.calls, "kernel") = r.iterations
                  /\ Len(r.calls) = 3 * r.iterations
            /\ (r.pc \in {"finalize", "exited"} /\ r.iterations = 0) =>
                  r.calls = <<>> /\ r.nanos = 0

C3_Witness ==
    \E w, v \in Ranks :
        /\ workers[w].pc = "finalize"
        /\ workers[w].iterations = MaxIterations
        /\ CountCalls(workers[w].calls, "kernel") = MaxIterations
        /\ workers[v].pc = "finalize"
        /\ lingering

C3_WitnessZero ==
    \E w \in Ranks :
        /\ workers[w].pc = "finalize"
        /\ workers[w].recvd >= 1
        /\ workers[w].iterations = 0

\* C4: a worker's accumulated duration is the time its kernel calls took and
\* nothing else: no time spent in setup or in the barrier enters it.
C4_OnlyKernelTimed ==
    \A w \in Ranks :
        /\ workers[w].total_duration = workers[w].kernel_time
        /\ workers[w].pc \in {"finalize", "exited"} =>
              workers[w].nanos = AsU64(workers[w].kernel_time)

\* setup and the barrier both took time in this iteration, after an earlier
\* iteration was timed
C4_Witness ==
    \E w \in Ranks :
        /\ workers[w].pc = "kernel"
        /\ workers[w].i >= 1
        /\ workers[w].now = 2
        /\ workers[w].total_duration > 0

\* C5: a worker in its measurement loop holds the iteration count and, when its
\* kernel takes an argument, the argument the coordinator chose for this sample,
\* received by broadcast; every setup call got that argument.
C5_BroadcastFidelity ==
    \A w \in Ranks :
        LET r == workers[w]
        IN  r.pc \in LoopPcs =>
              /\ r.recvd >= 1
              /\ r.iterations = bench.iterations
              /\ KernelDef(r.boot).typed =>
                    /\ r.recvd = 2
                    /\ bench.argument # None
                    /\ r.input = bench.argument[1]
                    /\ \A j \in 1 .. Len(r.calls) :
                          r.calls[j].op = "setup" => r.calls[j].arg = bench.argument

C5_Witness ==
    \E w \in Ranks :
        /\ lingering
        /\ workers[w].pc = "barrier"
        /\ KernelDef(workers[w].boot).typed
        /\ workers[w].iterations = MaxIterations
        /\ workers[w].input = 2

\* C6: a coordinator whose group has rank # 0 or size # 1 stops before any spawn
\* or collective call: no worker is spawned and the target is never run.
C6_FailFast ==
    (root.rank # 0 \/ root.size # 1) =>
        /\ root.target_runs = 0
        /\ Spawned = {}
        /\ bench.calls = <<>>

\* C7: when the spawn returns a remote group of another size than asked for, the
\* coordinator aborts before the merge, any broadcast and the reduction, and
\* returns no sample.
C7_SizeMismatchAborts ==
    (bench.child_world_size # None /\ bench.child_world_size[1] # bench.world_size) =>
        /\ root.pc = "panicked"
        /\ bench.calls = <<"spawn">>
        /\ bcasts = <<>>
        /\ sample = None

C7_Witness ==
    /\ bench.world_size = 2
    /\ bench.child_world_size = Some(1)
    /\ workers[1].pc = "merge"
    /\ root.pc = "panicked"

\* C8: a worker spawned for a measurement of kernel b runs b's bootstrap: b's
\* kernel function and b's setup function, with an argument exactly when b was
\* registered with an argument type.
C8_DispatchCorrect ==
    \A w \in Ranks :
        LET r == workers[w]
        IN  /\ r.pc # "none" => r.args = <<root.args[1], "--child", bench.kernel>>
            /\ r.boot # "none" =>
                  /\ r.boot = bench.kernel
                  /\ r.boot \in Registered
            /\ \A j \in 1 .. Len(r.calls) :
                  /\ r.calls[j].op = "setup" =>
                        /\ r.calls[j].fn = KernelDef(bench.kernel).setup
                        /\ (r.calls[j].arg # None) = KernelDef(bench.kernel).typed
                  /\ r.calls[j].op = "kernel" =>
                        r.calls[j].fn = KernelDef(bench.kernel).target

C8_Witness ==
    \E w \in Ranks :
        /\ bench.kernel = Kernels[2]
        /\ workers[w].boot = Kernels[2]
        /\ workers[w].pc = "finalize"
        /\ CountCalls(workers[w].calls, "kernel") >= 1

\* C9: a process started with --child and a kernel identifier that matches no
\* registered kernel panics: it runs no bootstrap, initializes nothing and takes
\* part in no merge, broadcast, barrier or reduction.
C9_UnknownKernelFatal ==
    /\ (Len(root.args) >= 3 /\ root.args[2] = "--child" /\ root.args[3] \notin Registered) =>
          /\ root.pc \in {"main", "panicked"}
          /\ ~root.mpi
          /\ root.boot = "none"
    /\ \A w \in Ranks :
          (workers[w].pc # "none" /\ workers[w].args[3] \notin Registered) =>
              /\ workers[w].pc \in {"main", "panicked"}
              /\ workers[w].boot = "none"
              /\ workers[w].recvd = 0
              /\ workers[w].calls = <<>>

C9_Witness ==
    \E w \in Ranks :
        /\ workers[w].args = <<"bench", "--child", "unlisted_kernel">>
        /\ workers[w].pc = "panicked"
        /\ root.pc = "panicked"

C9_WitnessRoot ==
    /\ root.args = <<"bench", "--child", "no_such_kernel">>
    /\ root.pc = "panicked"

\* C10: the command line alone decides the role.  No token, or --child without
\* a kernel: the process panics before it initializes MPI.  --child with a
\* kernel identifier: the worker path only.  Any other first token: the
\* coordinator path only.
C10_RoleFromArgs ==
    /\ Len(root.args) < 2 =>
          /\ root.pc \in {"main", "panicked"}
          /\ ~root.mpi /\ root.boot = "none" /\ root.group = 0
          /\ root.target_runs = 0 /\ bench.calls = <<>>
    /\ (Len(root.args) = 2 /\ root.args[2] = "--child") =>
          /\ root.pc \in {"main", "panicked"}
          /\ ~root.mpi /\ root.boot = "none" /\ root.group = 0
          /\ root.target_runs = 0 /\ bench.calls = <<>>
    /\ (Len(root.args) >= 3 /\ root.args[2] = "--child") =>
          /\ root.pc \in {"main", "execute_kernel", "panicked"}
          /\ root.group = 0 /\ root.target_runs = 0 /\ bench.calls = <<>>
    /\ (Len(root.args) >= 2 /\ root.args[2] # "--child") =>
          /\ root.pc # "execute_kernel"
          /\ root.boot = "none"
          /\ root.pc # "main" => (root.mpi /\ root.group >= 1)
    /\ \A w \in Ranks :
          workers[w].pc \notin {"none", "main"} =>
              /\ workers[w].pc # "coordinator"
              /\ workers[w].pc # "panicked" => workers[w].boot = workers[w].args[3]

\* --child in second place does not make a worker
C10_Witness ==
    /\ root.args = <<"bench", "--bench", "--child">>
    /\ root.pc = "sample_ready"

C10_WitnessChild ==
    /\ root.args = <<"bench", "--child", "first_kernel">>
    /\ root.boot = "first_kernel"
    /\ root.pc = "panicked"

C10_WitnessNoArgs ==
    /\ Len(root.args) = 1
    /\ root.pc = "panicked"

CountOps(ops, op) == Cardinality({j \in 1 .. Len(ops) : ops[j] = op})

\* the pcs of a coordinator whose spawn has returned the size it asked for
MeasuringPcs == {"merge", "bcast_iterations", "bcast_input", "reduce", "sample_ready"}

\* the collectives a worker makes on the merged group, start to end
WorkerCollectives(typed) ==
    <<"merge", "broadcast">> \o (IF typed THEN <<"broadcast">> ELSE <<>>) \o <<"reduce">>

C11_Group ==
    /\ root.pc \in MeasuringPcs =>
          /\ Spawned = 1 .. bench.world_size
          /\ \A w \in Spawned : workers[w].args = ChildArgs(root.args[1], bench.kernel)
    /\ \A w \in Ranks :
          LET r == workers[w]
          IN  /\ CountOps(r.collectives, "merge") <= 1
              /\ CountOps(r.collectives, "reduce") <= 1
              /\ r.pc \in LoopPcs => r.recvd >= 1 /\ r.iterations = bcasts[1]
              /\ r.pc \in {"finalize", "exited"} =>
                    r.collectives = WorkerCollectives(KernelDef(r.boot).typed)
    /\ root.pc = "sample_ready" =>
          /\ \A w \in 1 .. bench.world_size : Contributed(w)
          /\ bench.total_nanos = ReduceSum(bench.world_size)

C11_Step ==
    \A w \in Ranks :
        /\ workers[w].pc = "finalize" => workers'[w].pc \in {"finalize", "exited", "none"}
        /\ workers[w].pc = "exited" => workers'[w].pc \in {"exited", "none"}
        /\ Contributed(w) => \/ workers'[w].collectives = workers[w].collectives
                             \/ workers'[w] = NoWorker
        /\ (workers[w].pc = "none" /\ workers'[w].pc # "none") =>
              /\ root.pc = "idle" /\ root'.pc = "spawning"
              /\ workers'[w] = [NoWorker EXCEPT !.pc = "main", !.args = workers'[w].args]

\* C11: a measurement runs with exactly world_size workers, all created by its
\* own spawn; a worker merges once, receives one iteration count, contributes
\* once, to the reduction of its own sample, and from then on can only exit: no
\* record of a worker is carried into a later spawn.
C11_FreshGroup == [] C11_Group /\ [][C11_Step]_vars

C11_Witness ==
    /\ lingering
    /\ root.pc = "sample_ready"
    /\ bench.world_size = MaxWorkers
    /\ workers[1].pc = "exited"
    /\ workers[MaxWorkers].pc = "finalize"
    /\ workers[MaxWorkers].collectives = <<"merge", "broadcast", "broadcast", "reduce">>

\* the collective a process is in, from where it is in its function
PendingCollective(pc) ==
    IF pc = "merge" THEN <<"merge">>
    ELSE IF pc \in {"bcast_iterations", "bcast_input"} THEN <<"broadcast">>
    ELSE IF pc = "reduce" THEN <<"reduce">>
    ELSE <<>>

\* the collectives on the merged group a process has invoked so far, in order
CoordinatorInvoked == Tail(bench.calls) \o PendingCollective(root.pc)
WorkerInvoked(w) == workers[w].collectives \o PendingCollective(workers[w].pc)

\* two sequences of which one is a prefix of the other
SameOrder(s, t) ==
    \A j \in 1 .. (IF Len(s) <= Len(t) THEN Len(s) ELSE Len(t)) : s[j] = t[j]

\* C12: the coordinator and every worker of a sample invoke the same collectives
\* on the merged group in the same order, whatever the kernel's registration and
\* the measurement's argument; a barrier is on the workers' own world.
C12_SameCollectives ==
    /\ bench.calls # <<>> =>
          \A w \in Spawned : SameOrder(CoordinatorInvoked, WorkerInvoked(w))
    /\ \A w \in Ranks : \A j \in 1 .. Len(workers[w].calls) :
          workers[w].calls[j].op = "barrier" => workers[w].calls[j].fn = "world"

\* C12, when the measurement passes an argument exactly when the kernel was
\* registered with an argument type
C12_SameCollectivesMatched ==
    (/\ bench.calls # <<>>
     /\ KernelDef(bench.kernel).typed <=> bench.argument # None) =>
        /\ \A w \in Spawned : SameOrder(CoordinatorInvoked, WorkerInvoked(w))
        /\ \A w \in Ranks : \A j \in 1 .. Len(workers[w].calls) :
              workers[w].calls[j].op = "barrier" => workers[w].calls[j].fn = "world"

\* C13: in the merged group the coordinator holds rank 0 and worker w holds rank
\* w of 1..world_size, so the rank 0 the workers name as the root of their
\* broadcasts and reduction is the coordinator: what a worker received is what
\* the coordinator sent as this_process.
C13_CoordinatorIsRankZero ==
    /\ bench.merged_rank # None => bench.merged_rank = Some(0)
    /\ \A w \in Ranks :
          LET r == workers[w]
          IN  /\ r.merged_rank # None =>
                    /\ r.merged_rank = Some(w)
                    /\ r.merged_rank[1] \in 1 .. bench.world_size
                    /\ r.merged_rank[1] # WorkerRootRank
              /\ r.recvd >= 1 =>
                    /\ bench.merged_rank = Some(WorkerRootRank)
                    /\ r.iterations = bench.iterations
              /\ (r.recvd >= 2 /\ bench.argument # None) => r.input = bench.argument[1]
    /\ \A w, v \in Ranks :
          (w # v /\ workers[w].merged_rank # None) =>
              workers[w].merged_rank # workers[v].merged_rank

C13_Witness ==
    /\ root.pc = "reduce"
    /\ bench.merged_rank = Some(0)
    /\ bench.world_size = MaxWorkers
    /\ workers[1].merged_rank = Some(1)
    /\ workers[MaxWorkers].merged_rank = Some(MaxWorkers)
    /\ workers[MaxWorkers].recvd = 2
    /\ workers[MaxWorkers].input = 2

\* C14: a worker that has passed k barriers (and so started, or is about to
\* start, the kernel call of iteration k - 1) finds that every worker of its
\* sample has finished k setup calls and passed or entered the k-th barrier;
\* workers that left the loop have passed the same number of barriers.
C14_BarrierBeforeKernel ==
    \A w, v \in Spawned :
        LET passed == CountCalls(workers[w].calls, "barrier")
        IN  /\ CountCalls(workers[v].calls, "setup") >= passed
            /\ CountCalls(workers[v].calls, "barrier") >= passed - 1
            /\ CountCalls(workers[v].calls, "barrier") < passed =>
                  workers[v].pc = "barrier"
            /\ CountCalls(workers[v].calls, "kernel") >= passed - 1
            /\ (workers[w].pc \in PastLoopPcs /\ workers[v].pc \in PastLoopPcs) =>
                  CountCalls(workers[v].calls, "barrier") = passed

C14_Witness ==
    /\ workers[1].pc = "kernel"
    /\ workers[1].i = MaxIterations - 1
    /\ CountCalls(workers[1].calls, "barrier") = MaxIterations
    /\ workers[MaxWorkers].pc = "barrier"
    /\ CountCalls(workers[MaxWorkers].calls, "barrier") = MaxIterations - 1

\* C15: when the coordinator's reduction has returned and it holds the sample,
\* every worker of the sample has left its loop after exactly n = iterations
\* kernel calls and has made its contribution, which is in the total.
C15_SampleAfterAllIterations ==
    root.pc = "sample_ready" =>
        /\ sample # None
        /\ \A w \in 1 .. bench.world_size :
              /\ workers[w].pc \in {"finalize", "exited"}
              /\ workers[w].iterations = bench.iterations
              /\ workers[w].i = bench.iterations
              /\ CountCalls(workers[w].calls, "kernel") = bench.iterations
              /\ CountOps(workers[w].collectives, "reduce") = 1
              /\ workers[w].nanos = AsU64(workers[w].total_duration)
        /\ bench.total_nanos = ReduceSum(bench.world_size)

C15_Witness ==
    /\ root.pc = "sample_ready"
    /\ bench.iterations = MaxIterations
    /\ bench.world_size = MaxWorkers
    /\ bench.total_nanos > 0
    /\ \A w \in Ranks : CountCalls(workers[w].calls, "kernel") = MaxIterations

\* a worker process of the current sample that is running
Alive(w) == workers[w].pc \notin {"none", "exited", "panicked"}

\* C16: when the coordinator's reduction has returned every worker of the sample
\* has exited, so workers of two samples are never alive at the same time.
C16_TornDown ==
    /\ root.pc = "sample_ready" => \A w \in 1 .. bench.world_size : workers[w].pc = "exited"
    /\ ~(lingering /\ \E w \in Ranks : Alive(w))

\* C16, what the reduction does give: every worker has contributed and has only
\* its exit left
C16_OnlyExitLeft ==
    root.pc = "sample_ready" =>
        \A w \in 1 .. bench.world_size : workers[w].pc \in {"finalize", "exited"}

\* the state of the coordinator's per-sample machine, by the step of the closure
\* the coordinator is at: 1 Idle (between closure calls), 2 Spawning (the spawn
\* and the size check), 3 GroupMerged (the merge), 4 ParamsBroadcast (the
\* broadcasts), 5 Reducing (the reduction), 6 SampleReady (the mean and the
\* return); 0 outside a benchmark target
CoordinatorState(pc) ==
    IF pc = "idle" THEN 1
    ELSE IF pc = "spawning" THEN 2
    ELSE IF pc = "merge" THEN 3
    ELSE IF pc \in {"bcast_iterations", "bcast_input"} THEN 4
    ELSE IF pc = "reduce" THEN 5
    ELSE IF pc = "sample_ready" THEN 6
    ELSE 0

C17_Inv ==
    /\ CoordinatorState(root.pc) \in 2 .. 5 => sample = None
    /\ CoordinatorState(root.pc) = 6 => sample # None
    /\ CoordinatorState(root.pc) = 1 => bench = NoBench /\ Spawned = {}
    /\ CoordinatorState(root.pc) \in 2 .. 6 =>
          bench.calls = SubSeq(<<"spawn", "merge", "broadcast", "broadcast", "reduce">>,
                               1, Len(bench.calls))
          \/ bench.calls = SubSeq(<<"spawn", "merge", "broadcast", "reduce">>,
                                  1, Len(bench.calls))

C17_Step ==
    LET p == CoordinatorState(root.pc)
        q == CoordinatorState(root'.pc)
    IN  /\ \/ q = p
           \/ p \in 1 .. 5 /\ q = p + 1
           \/ p = 6 /\ q = 1
           \/ p = 0 /\ q \in {0, 1}
           \/ p = 1 /\ q = 0
           \/ p = 2 /\ root'.pc = "panicked"
        /\ sample' # sample =>
              \/ p = 5 /\ q = 6 /\ sample' # None
              \/ p = 1 /\ q = 2 /\ sample' = None
        /\ (p = 6 /\ q = 1) => sample' = sample

\* C17: per sample the coordinator passes Idle, Spawning, GroupMerged,
\* ParamsBroadcast, Reducing, SampleReady in this order, one state at a time and
\* none twice, sets the sample once, on entering SampleReady, hands it over
\* unchanged on the way back to Idle, and starts a spawn only from Idle; the
\* only way out of a sample is a fatal abort during Spawning.
C17_LinearStates == [] C17_Inv /\ [][C17_Step]_vars

C17_Witness ==
    /\ lingering
    /\ root.pc = "sample_ready"
    /\ bench.calls = <<"spawn", "merge", "broadcast", "broadcast", "reduce">>
    /\ sample = Some(1)

\* a worker whose setup or kernel call does not return
Stopped(w) == workers[w].pc \in {"stopped_setup", "stopped_kernel"}

C18_Inv ==
    \A w \in Spawned :
        Stopped(w) =>
            /\ sample = None
            /\ root.pc \in {"bcast_input", "reduce"}
            /\ ~ENABLED CoordinatorReduce
            /\ \A v \in Spawned :
                  /\ CountCalls(workers[v].calls, "barrier")
                        <= CountCalls(workers[w].calls, "barrier")
                  /\ (/\ workers[v].pc = "barrier"
                      /\ CountCalls(workers[v].calls, "barrier")
                            = CountCalls(workers[w].calls, "barrier")) =>
                        ~ENABLED WorkerBarrier(v)

C18_Step ==
    \A w \in Ranks :
        Stopped(w) =>
            /\ workers'[w] = workers[w]
            /\ root'.pc \in {"bcast_input", "reduce"}
            /\ sample' = None

C18_WitnessSibling ==
    /\ workers[1].pc = "stopped_kernel"
    /\ workers[MaxWorkers].pc = "exited"
    /\ root.pc = "reduce"

\* the spawn has started every process asked for and each has initialized MPI:
\* what a coordinator of a group of size 1 needs for its spawn to return
SpawnSatisfied ==
    /\ root.pc = "spawning"
    /\ bench.launched = bench.world_size
    /\ \A w \in 1 .. bench.launched : InMerge(w)

\* C19: a coordinator at rank 0 of a group of another size than 1 is not
\* stopped: it runs the benchmark target, and its measurement goes on as in a
\* group of size 1: a spawn that has its workers returns.
C19_WarnAndContinue ==
    (/\ MainRoute(root.args).path = "coordinator"
     /\ root.rank = 0 /\ root.size # 1 /\ root.pc \notin {"main", "group"}) =>
        /\ root.pc # "panicked"
        /\ root.target_runs >= 1
        /\ SpawnSatisfied => ENABLED SpawnReturn

\* C19, in a group of size 1: the spawn that has its workers returns
C19_SizeOneCompletes ==
    (root.rank = 0 /\ root.size = 1 /\ SpawnSatisfied) => ENABLED SpawnReturn

\* a measurement whose spawn gave exactly world_size workers (the size check has
\* passed) and that passes an argument exactly when its kernel has a type
MatchedSample ==
    /\ root.pc \in MeasuringPcs
    /\ KernelDef(bench.kernel).typed <=> bench.argument # None

AnyStopped == \E w \in Ranks : Stopped(w)

\* C20: under fair scheduling a measurement whose spawn gave exactly world_size
\* workers, whose argument matches the kernel's registration and whose setup
\* and kernel calls all return, ends: the coordinator gets to its sample and
\* every worker gets to its exit, for every iteration count and world size.
C20_SampleTerminates ==
    /\ MatchedSample ~> (root.pc = "sample_ready" \/ AnyStopped)
    /\ \A w \in Ranks :
          (MatchedSample /\ Alive(w)) ~>
              (workers[w].pc = "exited" \/ (workers[w].pc = "none" /\ root.pc = "idle")
                  \/ AnyStopped)
    /\ lingering ~> ~lingering

C20_Witness ==
    /\ root.pc = "sample_ready"
    /\ lingering
    /\ bench.kernel = "collective_comm_kernel"
    /\ bench.argument = Some(2)
    /\ bench.iterations = MaxIterations
    /\ bench.world_size = MaxWorkers
    /\ \A w \in Ranks : workers[w].pc = "exited"

C20_WitnessZero ==
    /\ root.pc = "sample_ready"
    /\ bench.kernel = "first_kernel"
    /\ bench.argument = None
    /\ bench.iterations = 0
    /\ bench.world_size = 1

====
